---- MODULE Spec2Model ----
(***************************************************************************)
(* ExpertSQL: the POST /query pipeline of src/app.py over src/neon_db.py.  *)
(*                                                                         *)
(* A SQL statement is a sequence of one-character strings, so that         *)
(* upper(), strip(), startswith(), endswith() and the substring test of    *)
(* validate_sql are computed on characters, as Python computes them.       *)
(* Column names are character sequences too; messages are TLA+ strings.    *)
(***************************************************************************)
EXTENDS Integers, Sequences, FiniteSets, TLC

VARIABLES
    pc,             \* position of process_query in its body
    body,           \* request.json of the request being handled
    natural_language, \* data.get('query')
    sql_query,      \* the statement generate_sql returned
    validation,     \* (is_valid, error_message) of validate_sql
    db_rows,        \* the rows the database returned to execute_query
    results,        \* the rows execute_query returned
    summary,        \* the value generate_natural_language_summary returned
    prompt,         \* what the summary prompt shows of the rows
    response,       \* the (body, status) process_query returned
    calls,          \* the external calls made so far, in order
    db_statements,  \* the statements handed to conn.execute, in order
    failed          \* the external calls that raised, in order

vars == <<pc, body, natural_language, sql_query, validation, db_rows, results,
          summary, prompt, response, calls, db_statements, failed>>

----------------------------------------------------------------------------
(* Bounds of the model. *)

\* A statement is a concatenation of at most MaxPieces pieces.
MaxPieces == 3
\* A result set has at most MaxRows rows (more than the 5-row prompt sample).
MaxRows == 6

----------------------------------------------------------------------------
(* Characters and Python's str methods. *)

LowerCase == <<"a","b","c","d","e","f","g","h","i","j","k","l","m",
               "n","o","p","q","r","s","t","u","v","w","x","y","z">>
UpperCase == <<"A","B","C","D","E","F","G","H","I","J","K","L","M",
               "N","O","P","Q","R","S","T","U","V","W","X","Y","Z">>
\* str.upper() on one character: a lower-case letter maps to its capital,
\* every other character of the alphabet used here is unchanged.
UpperChar(c) ==
    IF \E i \in DOMAIN LowerCase : LowerCase[i] = c
    THEN UpperCase[CHOOSE i \in DOMAIN LowerCase : LowerCase[i] = c]
    ELSE c

upper(s) == [i \in 1..Len(s) |-> UpperChar(s[i])]

\* str.lower() on one character.
LowerChar(c) ==
    IF \E i \in DOMAIN UpperCase : UpperCase[i] = c
    THEN LowerCase[CHOOSE i \in DOMAIN UpperCase : UpperCase[i] = c]
    ELSE c

lower(s) == [i \in 1..Len(s) |-> LowerChar(s[i])]

\* The characters str.strip() and str.lstrip() remove.
IsSpace(c) == c \in {" ", "\n", "\t"}

lstrip(s) ==
    IF \A i \in 1..Len(s) : IsSpace(s[i]) THEN <<>>
    ELSE SubSeq(s, CHOOSE i \in 1..Len(s) :
                       /\ ~IsSpace(s[i])
                       /\ \A j \in 1..(i-1) : IsSpace(s[j]),
                Len(s))

rstrip(s) ==
    IF \A i \in 1..Len(s) : IsSpace(s[i]) THEN <<>>
    ELSE SubSeq(s, 1, CHOOSE i \in 1..Len(s) :
                          /\ ~IsSpace(s[i])
                          /\ \A j \in (i+1)..Len(s) : IsSpace(s[j]))

strip(s) == rstrip(lstrip(s))

startswith(s, p) == Len(s) >= Len(p) /\ SubSeq(s, 1, Len(p)) = p

endswith(s, p) ==
    Len(s) >= Len(p) /\ SubSeq(s, Len(s) - Len(p) + 1, Len(s)) = p

\* The substring test (needle in hay) of Python strings.
Contains(needle, hay) ==
    \E i \in 0..(Len(hay) - Len(needle)) :
        SubSeq(hay, i + 1, i + Len(needle)) = needle

\* The text of a character sequence, for f-strings.
RECURSIVE Text(_)
Text(s) == IF s = <<>> THEN "" ELSE Head(s) \o Text(Tail(s))

----------------------------------------------------------------------------
(* neon_db.validate_sql *)

SELECT == <<"S","E","L","E","C","T">>

forbidden_keywords ==
    << <<"D","R","O","P">>,
       <<"D","E","L","E","T","E">>,
       <<"U","P","D","A","T","E">>,
       <<"I","N","S","E","R","T">>,
       <<"A","L","T","E","R">>,
       <<"T","R","U","N","C","A","T","E">> ,
       <<"G","R","A","N","T">>,
       <<"R","E","V","O","K","E">> >>

\* f' {x} '
Padded(x) == <<" ">> \o x \o <<" ">>

\* The keyword test of the loop: f' {keyword} ' in f' {query_upper} '.
KeywordHit(keyword, query_upper) == Contains(Padded(keyword), Padded(query_upper))

\* The indices of forbidden_keywords whose test succeeds; the loop returns
\* at the first of them.
KeywordHits(query) ==
    {i \in DOMAIN forbidden_keywords :
        KeywordHit(forbidden_keywords[i], upper(query))}

FirstHit(query) ==
    CHOOSE i \in KeywordHits(query) : \A j \in KeywordHits(query) : i <= j

\* not query_upper.lstrip().upper().startswith('SELECT')
NotSelect(query) == ~startswith(upper(lstrip(upper(query))), SELECT)

ForbiddenReason(keyword) == "Query contains forbidden keyword: " \o Text(keyword)
OnlySelectReason == "Only SELECT queries are allowed"

Rejected(reason) == [is_valid |-> FALSE, error_message |-> reason]
Accepted == [is_valid |-> TRUE, error_message |-> ""]

\* validate_sql with its two checks in the other order.
validate_sql_gate_first(query) ==
    IF NotSelect(query) THEN Rejected(OnlySelectReason)
    ELSE IF KeywordHits(query) # {}
    THEN Rejected(ForbiddenReason(forbidden_keywords[FirstHit(query)]))
    ELSE Accepted

\* validate_sql without the statement-type check.
validate_sql_no_gate(query) ==
    IF KeywordHits(query) # {}
    THEN Rejected(ForbiddenReason(forbidden_keywords[FirstHit(query)]))
    ELSE Accepted

validate_sql(query) ==
    IF KeywordHits(query) # {}
    THEN Rejected(ForbiddenReason(forbidden_keywords[FirstHit(query)]))
    ELSE IF NotSelect(query) THEN Rejected(OnlySelectReason)
    ELSE Accepted

----------------------------------------------------------------------------
(* Statements the model returns or the validator is given. *)

SqlPieces ==
    { <<"S","E","L","E","C","T">>,
      <<"s","e","l","e","c","t">>,
      <<" ">>, <<"\n">>, <<";">>,
      <<"D","R","O","P">>,
      <<"d","e","l","e","t","e">>,
      <<"U","p","d","a","t","e">>,
      <<"d","r","o","p","p","e","d","_","a","t">>,
      <<"x">> }

RECURSIVE Concats(_, _)
Concats(pieces, n) ==
    IF n = 0 THEN {<<>>}
    ELSE LET S == Concats(pieces, n - 1)
         IN  S \cup {s \o p : s \in S, p \in pieces}

Statements == Concats(SqlPieces, MaxPieces)

----------------------------------------------------------------------------
(* app.generate_sql: the clean-up of the model's answer. *)

\* The grave accent (U+0060) of a Markdown code fence. The TLA+ lexer reserves
\* that character, so it is written "#" here; no other piece contains "#".
Fence == "#"

FenceOpen == <<Fence, Fence, Fence, "s", "q", "l">>
FenceClose == <<Fence, Fence, Fence>>

\* sql_query[6:] when it starts with the opening fence
DropFenceOpen(s) ==
    IF startswith(s, FenceOpen) THEN SubSeq(s, Len(FenceOpen) + 1, Len(s)) ELSE s

\* sql_query[:-3] when it ends with the closing fence
DropFenceClose(s) ==
    IF endswith(s, FenceClose) THEN SubSeq(s, 1, Len(s) - Len(FenceClose)) ELSE s

\* content.strip(), the two fence removals, .strip()
CleanSql(content) == strip(DropFenceClose(DropFenceOpen(strip(content))))

\* What the SQL-generation model call may answer.
ContentPieces ==
    { <<"S","E","L","E","C","T">>,
      <<" ">>, <<"\n">>,
      <<"D","R","O","P">>,
      <<"x">>,
      FenceOpen, FenceClose }

Contents == Concats(ContentPieces, MaxPieces)

----------------------------------------------------------------------------
(* The request body and the falsy test of process_query. *)

None == [t |-> "none", s |-> ""]
Str(s) == [t |-> "str", s |-> s]

Question == "How many customers do we have?"

\* request.json: a JSON object with or without a query member, or a JSON
\* value that is no object (an array, null).
Bodies ==
    { [kind |-> "object", has_query |-> FALSE, query |-> None],
      [kind |-> "object", has_query |-> TRUE,  query |-> None],
      [kind |-> "object", has_query |-> TRUE,  query |-> Str("")],
      [kind |-> "object", has_query |-> TRUE,  query |-> Str(Question)],
      [kind |-> "array",  has_query |-> FALSE, query |-> None],
      [kind |-> "null",   has_query |-> FALSE, query |-> None] }

\* data.get('query')
GetQuery(b) == IF b.has_query THEN b.query ELSE None

\* A test for None alone, which lets the empty string through.
IsNone(v) == v.t = "none"

\* not natural_language
Falsy(v) == v.t = "none" \/ (v.t = "str" /\ v.s = "")

AttributeErrorText(kind) ==
    IF kind = "null" THEN "'NoneType' object has no attribute 'get'"
    ELSE "'list' object has no attribute 'get'"

----------------------------------------------------------------------------
(* Responses of process_query. *)

NoResponse == [status |-> 0, body |-> [pending |-> TRUE]]

NoQueryProvided == [status |-> 400, body |-> [error |-> "No query provided"]]

\* The outer handler answering 400.
OuterExceptAsClientError(msg) == [status |-> 400, body |-> [error |-> msg]]

\* except Exception as e: return jsonify({"error": str(e)}), 500
OuterExcept(msg) == [status |-> 500, body |-> [error |-> msg]]

InvalidSql(reason, sql) ==
    [status |-> 400,
     body |-> [error |-> "Invalid SQL query: " \o reason, generated_sql |-> sql]]

\* The inner handler: whatever is raised between execute_query and jsonify.
ExecuteExcept(msg, sql) ==
    [status |-> 400,
     body |-> [error |-> "Error executing query: " \o msg, generated_sql |-> sql]]

Success(nl, sql, rows, text) ==
    [status |-> 200,
     body |-> [success |-> TRUE, query |-> nl, sql |-> sql,
               results |-> rows, summary |-> text]]

\* raise Exception(f"Error generating SQL: {str(e)}")
GenerationError(msg) == "Error generating SQL: " \o msg

SchemaErrors == {"connection refused", "permission denied for schema public"}
ModelErrors == {"Rate limit exceeded", "'NoneType' object has no attribute 'strip'"}
DbErrors == {"relation \"nonexistent_table\" does not exist"}
ConnectErrors == {"connection refused"}

----------------------------------------------------------------------------
(* Values of result cells, and neon_db.execute_query. *)

\* A cell value is [kind, v]: kind is what Python can do with the value and v
\* tells values of one kind apart.
\*   int, str   JSON-native, no hex attribute
\*   uuid       has a hex attribute, str() succeeds (uuid.UUID)
\*   interval   no hex attribute, str() succeeds, not JSON-serialisable
\*              (datetime.timedelta of an INTERVAL column)
\*   badhex     has a hex attribute, str() raises
\*   badobj     no hex attribute, str() raises, not JSON-serialisable
Plain(n) == [kind |-> "int", v |-> n]
SpecialKinds == {"uuid", "interval", "badhex", "badobj"}

\* hasattr(value, 'hex')
HasHex(v) == v.kind \in {"uuid", "badhex"}
\* str(value) raises
StrRaises(v) == v.kind \in {"badhex", "badobj"}
\* str(value)
PyStr(v) == [kind |-> "str", v |-> v.v]
\* what jsonify can encode
JsonSerializable(v) == v.kind \in {"int", "str", "uuid"}

StrErrorText == "__str__ returned non-string"
Placeholder == [kind |-> "placeholder", v |-> 0]

\* Column names, as character sequences.
ColId == <<"i","d">>
ColName == <<"n","a","m","e">>
ColDocVector == <<"D","o","c","_","V","e","c","t","o","r">>

ColumnLists == { <<ColName>>, <<ColDocVector, ColId>> }

\* A row is an ordered mapping: a sequence of [k |-> column, v |-> value].
PlainRow(cols, r) == [c \in 1..Len(cols) |-> [k |-> cols[c], v |-> Plain(r)]]
PlainRows(cols, n) == [r \in 1..n |-> PlainRow(cols, r)]

\* The result sets the database may return: up to MaxRows rows over one of
\* the column lists, every cell an int but at most one, which sits in the
\* last row (inside the prompt sample for up to SampleSize rows, outside it
\* for more).
ResultSets ==
    {<<>>} \cup
    UNION { {PlainRows(cols, n)} \cup
            { [PlainRows(cols, n) EXCEPT ![n][c].v = [kind |-> kd, v |-> n]] :
                c \in 1..Len(cols), kd \in SpecialKinds }
          : cols \in ColumnLists, n \in 1..MaxRows }

\* What engine.connect() and conn.execute() may do.
DbOutcomes ==
    { [kind |-> "connect_error", msg |-> m, rows |-> <<>>] : m \in ConnectErrors }
    \cup { [kind |-> "db_error", msg |-> m, rows |-> <<>>] : m \in DbErrors }
    \cup { [kind |-> "rows", msg |-> "", rows |-> R] : R \in ResultSets }

Cells(rows) == {rows[r][c] : r \in 1..Len(rows), c \in 1..Len(rows[1])}

\* lines 76-79: a value with a hex attribute is replaced by str(value)
ConvertValue(v) == IF HasHex(v) THEN PyStr(v) ELSE v

ConvertRows(rows) ==
    [r \in 1..Len(rows) |->
        [c \in 1..Len(rows[r]) |-> [k |-> rows[r][c].k, v |-> ConvertValue(rows[r][c].v)]]]

\* str(value) of line 77 raises for some cell
ConversionRaises(rows) ==
    rows # <<>> /\ \E cell \in Cells(rows) : HasHex(cell.v) /\ StrRaises(cell.v)

Raised(msg) == [raised |-> TRUE, msg |-> msg, rows |-> <<>>]
Returned(rows) == [raised |-> FALSE, msg |-> "", rows |-> rows]

\* execute_query with the conversion of each cell guarded: a cell whose
\* str() raises becomes a placeholder and the rows are returned.
execute_query_guarded(outcome) ==
    IF outcome.kind # "rows" THEN Raised(outcome.msg)
    ELSE Returned(
        [r \in 1..Len(outcome.rows) |->
            [c \in 1..Len(outcome.rows[r]) |->
                [k |-> outcome.rows[r][c].k,
                 v |-> IF HasHex(outcome.rows[r][c].v) /\ StrRaises(outcome.rows[r][c].v)
                       THEN Placeholder
                       ELSE ConvertValue(outcome.rows[r][c].v)]]])

\* execute_query: what it returns or raises, given what the database does.
execute_query(outcome) ==
    IF outcome.kind # "rows" THEN Raised(outcome.msg)
    ELSE IF ConversionRaises(outcome.rows) THEN Raised(StrErrorText)
    ELSE Returned(ConvertRows(outcome.rows))

----------------------------------------------------------------------------
(* app.generate_natural_language_summary *)

\* results[:5]
SampleSize == 5

NoResultsText == "No results found for your query."

\* A short-circuit test that never holds.
NoResultsNever(rs) == FALSE

\* not results
NoResults(rs) == rs = <<>>

\* list(results[0].keys())
Columns(rs) == [c \in 1..Len(rs[1]) |-> rs[1][c].k]

VECTOR == <<"v","e","c","t","o","r">>
EMBEDDING == <<"e","m","b","e","d","d","i","n","g">>

\* 'vector' in str(k).lower() or 'embedding' in str(k).lower()
SkippedColumn(k) == Contains(VECTOR, lower(k)) \/ Contains(EMBEDDING, lower(k))

\* the literal "[complex data]"
ComplexData == [kind |-> "complex_data", v |-> 0]

safe_serialize(v) == IF StrRaises(v) THEN ComplexData ELSE PyStr(v)

SafeRow(row) ==
    LET kept == SelectSeq(row, LAMBDA cell : ~SkippedColumn(cell.k))
    IN  [i \in 1..Len(kept) |-> [k |-> kept[i].k, v |-> safe_serialize(kept[i].v)]]

Min(a, b) == IF a <= b THEN a ELSE b

SafeResults(rs) == [r \in 1..Min(SampleSize, Len(rs)) |-> SafeRow(rs[r])]

\* What the prompt tells the model of the rows.
Prompt(nl, rs) ==
    [query |-> nl, shown |-> Len(SafeResults(rs)), total |-> Len(rs),
     sample |-> SafeResults(rs)]

NoPrompt == [query |-> "", shown |-> 0, total |-> 0, sample |-> <<>>]

\* ', '.join(str(col) for col in columns)
RECURSIVE JoinComma(_)
JoinComma(cols) ==
    IF cols = <<>> THEN ""
    ELSE IF Len(cols) = 1 THEN Text(cols[1])
    ELSE Text(cols[1]) \o ", " \o JoinComma(Tail(cols))

\* f"Found {result_count} results with columns: {...}."
FallbackSummary(rs) ==
    "Found " \o ToString(Len(rs)) \o " results with columns: "
             \o JoinComma(Columns(rs)) \o "."

\* What the summary model call may do.
SummaryOutcomes ==
    { [kind |-> "content", chars |-> <<" ","A","l","l"," ","f","i","n","e",".","\n">>],
      [kind |-> "error", chars |-> <<>>] }

IndexErrorText == "list index out of range"

\* TypeError of jsonify for a value it cannot encode
TypeErrorText == "Object is not JSON serializable"

----------------------------------------------------------------------------
(* app.process_query, step by step. *)

Init ==
    /\ pc = "idle"
    /\ body = [kind |-> "none", has_query |-> FALSE, query |-> None]
    /\ natural_language = None
    /\ sql_query = <<>>
    /\ validation = <<>>
    /\ db_rows = <<>>
    /\ results = <<>>
    /\ summary = ""
    /\ prompt = NoPrompt
    /\ response = NoResponse
    /\ calls = <<>>
    /\ db_statements = <<>>
    /\ failed = <<>>

\* lines 139-143: the body is read and the question tested.
ReceiveQuestion(b) ==
    /\ pc = "idle"
    /\ body' = b
    /\ IF b.kind # "object"
       THEN /\ natural_language' = natural_language
            /\ response' = OuterExcept(AttributeErrorText(b.kind))
            /\ pc' = "done"
       ELSE /\ natural_language' = GetQuery(b)
            /\ IF Falsy(GetQuery(b))
               THEN response' = NoQueryProvided /\ pc' = "done"
               ELSE response' = response /\ pc' = "get_schema"
    /\ UNCHANGED <<sql_query, validation, db_rows, results, summary, prompt,
                   calls, db_statements, failed>>

\* A schema step that goes on to the model call whatever get_schema did.
AfterSchemaAlways(ok) == "generate"

\* get_schema() raising leaves generate_sql and lands in the outer handler.
AfterSchema(ok) == IF ok THEN "generate" ELSE "done"

\* line 100: schema = get_database_schema()
DescribeSchema(ok, msg) ==
    /\ pc = "get_schema"
    /\ calls' = Append(calls, "get_schema")
    /\ pc' = AfterSchema(ok)
    /\ IF ok
       THEN UNCHANGED <<response, failed>>
       ELSE /\ failed' = Append(failed, "get_schema")
            /\ response' = OuterExcept(msg)
    /\ UNCHANGED <<body, natural_language, sql_query, validation, db_rows,
                   results, summary, prompt, db_statements>>

\* lines 112-131: the model call answered; the answer is cleaned.
GenerateSQL(content) ==
    /\ pc = "generate"
    /\ calls' = Append(calls, "openai_sql")
    /\ sql_query' = CleanSql(content)
    /\ pc' = "validate"
    /\ UNCHANGED <<body, natural_language, validation, db_rows, results,
                   summary, prompt, response, db_statements, failed>>

\* lines 132-133 and 177-178: the model call raised.
GenerateSQLFails(msg) ==
    /\ pc = "generate"
    /\ calls' = Append(calls, "openai_sql")
    /\ failed' = Append(failed, "openai_sql")
    /\ response' = OuterExcept(GenerationError(msg))
    /\ pc' = "done"
    /\ UNCHANGED <<body, natural_language, sql_query, validation, db_rows,
                   results, summary, prompt, db_statements>>

\* A validation step that goes on to execute whatever validate_sql said.
AfterValidationAlways(v) == "execute"

\* lines 150-154: a rejection returns
AfterValidation(v) == IF v.is_valid THEN "execute" ELSE "done"

\* lines 149-154
ValidateSQL ==
    /\ pc = "validate"
    /\ LET v == validate_sql(sql_query)
       IN  /\ validation' = <<v>>
           /\ pc' = AfterValidation(v)
           /\ response' = IF v.is_valid THEN response
                          ELSE InvalidSql(v.error_message, sql_query)
    /\ UNCHANGED <<body, natural_language, sql_query, db_rows, results,
                   summary, prompt, calls, db_statements, failed>>

\* line 159 and, when execute_query raises, lines 171-175
ExecuteSQL(outcome) ==
    /\ pc = "execute"
    /\ calls' = Append(calls, "execute_query")
    /\ db_statements' = IF outcome.kind = "connect_error" THEN db_statements
                        ELSE Append(db_statements, sql_query)
    /\ db_rows' = outcome.rows
    /\ LET r == execute_query(outcome)
       IN  IF r.raised
           THEN /\ failed' = Append(failed, "execute_query")
                /\ response' = ExecuteExcept(r.msg, sql_query)
                /\ pc' = "done"
                /\ UNCHANGED results
           ELSE /\ results' = r.rows
                /\ pc' = "summarize"
                /\ UNCHANGED <<failed, response>>
    /\ UNCHANGED <<body, natural_language, sql_query, validation, summary, prompt>>

\* line 162, for results that make no model call: the short-circuit of
\* lines 35-36, and results[0] of line 39 raising on an empty list.
SummarizeLocally ==
    /\ pc = "summarize"
    /\ NoResults(results) \/ results = <<>>
    /\ IF NoResults(results)
       THEN /\ summary' = NoResultsText
            /\ pc' = "respond"
            /\ UNCHANGED response
       ELSE /\ response' = ExecuteExcept(IndexErrorText, sql_query)
            /\ pc' = "done"
            /\ UNCHANGED summary
    /\ UNCHANGED <<body, natural_language, sql_query, validation, db_rows,
                   results, prompt, calls, db_statements, failed>>

\* line 162, lines 38-96: the prompt is built and the model called.
SummarizeWithModel(outcome) ==
    /\ pc = "summarize"
    /\ ~NoResults(results) /\ results # <<>>
    /\ prompt' = Prompt(natural_language.s, results)
    /\ calls' = Append(calls, "openai_summary")
    /\ IF outcome.kind = "content"
       THEN summary' = Text(strip(outcome.chars)) /\ UNCHANGED failed
       ELSE /\ summary' = FallbackSummary(results)
            /\ failed' = Append(failed, "openai_summary")
    /\ pc' = "respond"
    /\ UNCHANGED <<body, natural_language, sql_query, validation, db_rows,
                   results, response, db_statements>>

\* lines 164-175: jsonify of the success body, inside the inner try.
Respond ==
    /\ pc = "respond"
    /\ response' =
         IF results = <<>> \/ \A cell \in Cells(results) : JsonSerializable(cell.v)
         THEN Success(natural_language.s, sql_query, results, summary)
         ELSE ExecuteExcept(TypeErrorText, sql_query)
    /\ pc' = "done"
    /\ UNCHANGED <<body, natural_language, sql_query, validation, db_rows,
                   results, summary, prompt, calls, db_statements, failed>>

Next ==
    \/ \E b \in Bodies : ReceiveQuestion(b)
    \/ DescribeSchema(TRUE, "")
    \/ \E m \in SchemaErrors : DescribeSchema(FALSE, m)
    \/ \E c \in Contents : GenerateSQL(c)
    \/ \E m \in ModelErrors : GenerateSQLFails(m)
    \/ ValidateSQL
    \/ \E o \in DbOutcomes : ExecuteSQL(o)
    \/ SummarizeLocally
    \/ \E o \in SummaryOutcomes : SummarizeWithModel(o)
    \/ Respond

Spec == Init /\ [][Next]_vars

----------------------------------------------------------------------------
(* validate_sql on its own, over every statement of the bounded set. *)

InitValidate ==
    /\ pc = "unvalidated"
    /\ sql_query \in Statements
    /\ body = [kind |-> "none", has_query |-> FALSE, query |-> None]
    /\ natural_language = None
    /\ validation = <<>>
    /\ db_rows = <<>>
    /\ results = <<>>
    /\ summary = ""
    /\ prompt = NoPrompt
    /\ response = NoResponse
    /\ calls = <<>>
    /\ db_statements = <<>>
    /\ failed = <<>>

CallValidate ==
    /\ pc = "unvalidated"
    /\ validation' = <<validate_sql(sql_query)>>
    /\ pc' = "validated"
    /\ UNCHANGED <<body, natural_language, sql_query, db_rows, results,
                   summary, prompt, response, calls, db_statements, failed>>

NextValidate == CallValidate

SpecValidate == InitValidate /\ [][NextValidate]_vars

----------------------------------------------------------------------------
(* Vocabulary of the properties. *)

InCalls(c) == \E i \in DOMAIN calls : calls[i] = c
InFailed(c) == \E i \in DOMAIN failed : failed[i] = c

\* execute_query was called and returned.
ExecSucceeded == InCalls("execute_query") /\ ~InFailed("execute_query")

IsRejected == validation # <<>> /\ ~validation[1].is_valid
IsAccepted == validation # <<>> /\ validation[1].is_valid

\* Two characters equal up to letter case.
SameLetter(a, b) == UpperChar(a) = UpperChar(b)

\* q is some whitespace followed by the letters of SELECT in any case.
BeginsWithSelect(q) ==
    \E k \in 0..Len(q) :
        /\ \A i \in 1..k : IsSpace(q[i])
        /\ Len(q) >= k + 6
        /\ \A j \in 1..6 : SameLetter(q[k + j], SELECT[j])

\* kw occurs in q at position i, in any letter case.
OccursAt(q, kw, i) ==
    /\ i + Len(kw) - 1 <= Len(q)
    /\ \A j \in 1..Len(kw) : SameLetter(q[i + j - 1], kw[j])

\* A character an identifier may contain.
IdentChar(c) ==
    \/ \E i \in DOMAIN UpperCase : UpperCase[i] = c \/ LowerCase[i] = c
    \/ c \in {"0","1","2","3","4","5","6","7","8","9","_"}

\* kw occurs in q as a token: what is before and after it, if anything, is
\* whitespace or punctuation.
StandaloneToken(q, kw) ==
    \E i \in 1..Len(q) :
        /\ OccursAt(q, kw, i)
        /\ (i = 1 \/ ~IdentChar(q[i - 1]))
        /\ (i + Len(kw) > Len(q) \/ ~IdentChar(q[i + Len(kw)]))

\* kw occurs in q with a space, or nothing, on each side.
SpaceDelimited(q, kw) ==
    \E i \in 1..Len(q) :
        /\ OccursAt(q, kw, i)
        /\ (i = 1 \/ q[i - 1] = " ")
        /\ (i + Len(kw) > Len(q) \/ q[i + Len(kw)] = " ")

SpaceDelimitedKeywords(q) ==
    {i \in DOMAIN forbidden_keywords : SpaceDelimited(q, forbidden_keywords[i])}

IsForbiddenReason(msg) ==
    \E i \in DOMAIN forbidden_keywords :
        msg = "Query contains forbidden keyword: " \o Text(forbidden_keywords[i])

\* db_rows holds a cell whose conversion to a string raises in execute_query.
HasFailingCell ==
    db_rows # <<>> /\ \E cell \in Cells(db_rows) : HasHex(cell.v) /\ StrRaises(cell.v)

CallOrder == <<"get_schema", "openai_sql", "execute_query", "openai_summary">>

----------------------------------------------------------------------------
(* Properties of the pipeline (specification Spec). *)

\* C1: execute_query is invoked only if validate_sql accepted the generated
\* statement; when validation rejects, the run has ended with a 400 response
\* whose error carries the rejection reason and whose generated_sql is the
\* generated statement, and nothing was executed against the database.
C1_ExecuteOnlyIfAccepted ==
    /\ (InCalls("execute_query") \/ db_statements # <<>>) => IsAccepted
    /\ IsRejected =>
         /\ pc = "done"
         /\ response.status = 400
         /\ response.body =
              [error |-> "Invalid SQL query: " \o validation[1].error_message,
               generated_sql |-> sql_query]
         /\ db_statements = <<>>
         /\ ~InCalls("execute_query")

C1_Witness == pc = "done" /\ IsRejected /\ InCalls("openai_sql") /\ sql_query # <<>>

\* C4: a JSON-object body whose query is missing, null or the empty string
\* is answered 400 {"error": "No query provided"} with no external call.
C4_NoQueryIsBadRequest ==
    (body.kind = "object" /\ (~body.has_query \/ body.query.t = "none" \/ body.query.s = ""))
        => /\ pc = "done"
           /\ response = [status |-> 400, body |-> [error |-> "No query provided"]]
           /\ calls = <<>>
           /\ db_statements = <<>>

C4_Witness ==
    pc = "done" /\ body.kind = "object" /\ body.has_query /\ body.query = Str("")

\* C5 as stated: every failure of the taxonomy ends in a 400 response, a
\* schema or generation failure without generated_sql, and 500 is left to
\* exceptions outside the taxonomy.
C5_AllFailuresAre400 ==
    pc = "done" =>
        /\ (\/ (body.kind = "object" /\ (natural_language.t = "none" \/ natural_language.s = ""))
            \/ failed = <<"get_schema">>
            \/ failed = <<"openai_sql">>
            \/ IsRejected
            \/ failed = <<"execute_query">>) => response.status = 400
        /\ (failed = <<"get_schema">> \/ failed = <<"openai_sql">>)
              => DOMAIN response.body = {"error"}
        /\ response.status = 500 => body.kind # "object"

\* C5 as the code has it: a missing question, a rejected statement and a
\* failed execution end in 400; a schema failure and a failure of the
\* SQL-generation model call end in 500 with an error and no generated_sql,
\* and 500 comes from those two or from a body that is no JSON object.
C5_FailureStatus ==
    pc = "done" =>
        /\ (\/ (body.kind = "object" /\ (natural_language.t = "none" \/ natural_language.s = ""))
            \/ IsRejected
            \/ failed = <<"execute_query">>) => response.status = 400
        /\ (failed = <<"get_schema">> \/ failed = <<"openai_sql">>)
              => response.status = 500 /\ DOMAIN response.body = {"error"}
        /\ response.status = 500
              => \/ failed = <<"get_schema">>
                 \/ failed = <<"openai_sql">>
                 \/ body.kind # "object"

C5_Witness ==
    pc = "done" /\ failed = <<"openai_sql">> /\ response.body.error # ""

\* C6 as stated: once execute_query has returned, the request ends with the
\* success response carrying question, SQL, rows and summary, and after a
\* failed summary call the summary is the fallback text over all rows and
\* the columns of the first row.
C6_SuccessAfterExecution ==
    (pc = "done" /\ ExecSucceeded) =>
        /\ response.status = 200
        /\ response.body = [success |-> TRUE, query |-> natural_language.s,
                            sql |-> sql_query, results |-> results,
                            summary |-> summary]
        /\ InFailed("openai_summary") =>
             summary = "Found " \o ToString(Len(db_rows))
                       \o " results with columns: "
                       \o JoinComma([c \in 1..Len(db_rows[1]) |-> db_rows[1][c].k])
                       \o "."

\* C7: for an empty result the summary is the fixed text and no summary
\* model call is made, so the run makes one model call in all.
C7_EmptyResultNoModelCall ==
    (pc \in {"respond", "done"} /\ ExecSucceeded /\ db_rows = <<>>) =>
        /\ summary = "No results found for your query."
        /\ ~InCalls("openai_summary")
        /\ Cardinality({i \in DOMAIN calls :
                          calls[i] \in {"openai_sql", "openai_summary"}}) = 1

C7_Witness ==
    pc = "done" /\ ExecSucceeded /\ db_rows = <<>> /\ response.status = 200

\* C8: the external calls made are an initial part of schema introspection,
\* SQL-generation call, query execution, summary call, each at most once;
\* and a call that failed is the last call of the run.
C8_CallOrder ==
    /\ Len(calls) <= Len(CallOrder)
    /\ \A i \in DOMAIN calls : calls[i] = CallOrder[i]
    /\ failed # <<>> => Len(failed) = 1 /\ failed[1] = calls[Len(calls)]

C8_Witness == pc = "done" /\ calls = CallOrder /\ failed = <<"openai_summary">>

\* C10 as stated: a cell whose conversion fails becomes a placeholder, the
\* other cells and rows are returned and the execution does not fail.
C10_ConversionFailureConfined ==
    (InCalls("execute_query") /\ HasFailingCell) =>
        /\ ~InFailed("execute_query")
        /\ Len(results) = Len(db_rows)
        /\ \A r \in 1..Len(db_rows) : \A c \in 1..Len(db_rows[r]) :
              /\ results[r][c].k = db_rows[r][c].k
              /\ results[r][c].v =
                    IF HasHex(db_rows[r][c].v) /\ StrRaises(db_rows[r][c].v)
                    THEN Placeholder
                    ELSE ConvertValue(db_rows[r][c].v)

\* C10 as the code has it: a cell whose conversion fails makes execute_query
\* raise; no rows are returned and the request ends with the 400 response of
\* the inner handler, carrying the generated SQL.
C10_ConversionFailureAborts ==
    (InCalls("execute_query") /\ HasFailingCell) =>
        /\ pc = "done"
        /\ failed = <<"execute_query">>
        /\ results = <<>>
        /\ response.status = 400
        /\ DOMAIN response.body = {"error", "generated_sql"}
        /\ response.body.generated_sql = sql_query

C10_Witness == pc = "done" /\ HasFailingCell /\ Len(db_rows) >= 2

----------------------------------------------------------------------------
(* Properties of validate_sql (specification SpecValidate). *)

\* C2: every accepted statement begins, after leading whitespace and in any
\* letter case, with SELECT.
C2_AcceptedBeginsWithSelect ==
    (pc = "validated" /\ IsAccepted) => BeginsWithSelect(sql_query)

C2_Witness ==
    /\ pc = "validated" /\ IsAccepted
    /\ IsSpace(sql_query[1]) /\ sql_query[2] = "s"

\* C3 as stated: a statement holding a deny-listed keyword as a token
\* delimited by whitespace, punctuation or the ends of the statement is
\* rejected, and the forbidden-keyword reason is given only for such a token.
C3_StandaloneKeywordRejected ==
    pc = "validated" =>
        /\ (\E i \in DOMAIN forbidden_keywords :
                StandaloneToken(sql_query, forbidden_keywords[i])) => IsRejected
        /\ IsForbiddenReason(validation[1].error_message) =>
              \E i \in DOMAIN forbidden_keywords :
                  StandaloneToken(sql_query, forbidden_keywords[i])

\* C9 as stated: a statement that does not begin with SELECT is rejected
\* with the statement-type reason, whatever keywords it holds.
C9_GateReasonFirst ==
    (pc = "validated" /\ ~BeginsWithSelect(sql_query)) =>
        /\ IsRejected
        /\ validation[1].error_message = "Only SELECT queries are allowed"

\* C9 as the code has it: the deny-list scan comes first. A statement with a
\* space-delimited deny-listed keyword is rejected with the forbidden-keyword
\* reason naming the first such keyword of the list, whether or not it
\* begins with SELECT; the statement-type reason is given to a statement
\* without such a keyword that does not begin with SELECT.
C9_DenyListFirst ==
    pc = "validated" =>
        /\ SpaceDelimitedKeywords(sql_query) # {} =>
             /\ IsRejected
             /\ \E i \in SpaceDelimitedKeywords(sql_query) :
                  /\ \A j \in SpaceDelimitedKeywords(sql_query) : i <= j
                  /\ validation[1].error_message =
                       "Query contains forbidden keyword: " \o Text(forbidden_keywords[i])
        /\ (SpaceDelimitedKeywords(sql_query) = {} /\ ~BeginsWithSelect(sql_query)) =>
             /\ IsRejected
             /\ validation[1].error_message = "Only SELECT queries are allowed"

C9_Witness ==
    /\ pc = "validated"
    /\ ~BeginsWithSelect(sql_query)
    /\ Cardinality(SpaceDelimitedKeywords(sql_query)) >= 2

====
